---- MODULE Spec2Model ----
(***************************************************************************)
(* Model of src/src/pages/GenerateReport.tsx: the CacheManager (result     *)
(* cache + sliding-window rate limiter), retryWithBackoff, and the         *)
(* GenerateReport page's handleGenerateReport run.                         *)
(*                                                                         *)
(* Time is in milliseconds, as Date.now() is.  Strings are sequences of    *)
(* tokens; s.includes(t) is membership of the token t.                     *)
(*                                                                         *)
(* Four drivers exercise the code:                                         *)
(*   "retry" : successive calls retryWithBackoff(operation), the operation *)
(*             being any promise-returning function (SpecRetry);           *)
(*   "cache" : successive calls of CacheManager.get / set (SpecCache);     *)
(*   "page"  : the GenerateReport page, its user and the remote service,   *)
(*             over several page loads (SpecPage).                         *)
(*   "evict" : CacheManager.set / get up to and on a full cache            *)
(*             (SpecEvict).                                                *)
(* Spec is all of them together; SpecCalls is the two that call            *)
(* retryWithBackoff.                                                       *)
(***************************************************************************)
EXTENDS Integers, Sequences, FiniteSets, TLC

\* ---------------------------------------------------------------- bounds
MaxCalls == 11
MaxFaults == 3
MaxTicks == 2
MaxCacheOps == 3
MaxLoads == 1
MaxEvictOps == 4
DigestLen == 2

\* ------------------------------------------------------ program constants
maxRequestsPerMinute == 10
cooldownPeriod == 60000
maxAge == 86400000
maxEntries == 50
maxRetries == 3
initialDelay == 2000
maxDelay == 30000
backoffFactor == 2

\* ------------------------------------------------------------- utilities
Min(a, b) == IF a < b THEN a ELSE b
Max(a, b) == IF a > b THEN a ELSE b
\* Math.ceil(ms / 1000) for ms >= 0
CeilSeconds(ms) == (ms + 999) \div 1000
\* String.prototype.includes on token sequences
Includes(msg, tok) == \E i \in DOMAIN msg : msg[i] = tok
\* an optional value: <<>> is null, <<v>> is the value v
Null == <<>>
Some(v) == <<v>>

\* ------------------------------------------------------------ Content hash
Images == {"imgA", "imgA2", "imgB"}
\* the bytes behind an image URL: imgA and imgA2 are the same picture
Bytes(url) == IF url = "imgB" THEN "b" ELSE "a"
\* SHA-256 as lowercase hex: fixed length, never holds a "-"
generateImageHash(url) == [i \in 1..DigestLen |-> Bytes(url)]
\* mutant: the prompt left out of the key
CacheKey_NoPrompt(imageHash, prompt) == imageHash \o <<"-">>
CacheKey(imageHash, prompt) == imageHash \o <<"-">> \o prompt

\* ------------------------------------------------------------ CacheManager
\* this.cache: the Map's entries in insertion order, [key, data, timestamp, imageHash]
KeyIndex(c, key) ==
  IF \E i \in DOMAIN c : c[i].key = key
  THEN CHOOSE i \in DOMAIN c : c[i].key = key
  ELSE 0
RemoveAt(c, i) == [j \in 1..(Len(c) - 1) |-> IF j < i THEN c[j] ELSE c[j + 1]]
MapDelete(c, key) == IF KeyIndex(c, key) = 0 THEN c ELSE RemoveAt(c, KeyIndex(c, key))
MapSet(c, e) ==
  IF KeyIndex(c, e.key) = 0 THEN Append(c, e)
  ELSE [c EXCEPT ![KeyIndex(c, e.key)] = e]

\* mutant: age <= maxAge
EntryFresh_AtEdge(e, t) == t - e.timestamp <= maxAge
\* get(): the entry of the key is fresh while age < maxAge
EntryFresh(e, t) == t - e.timestamp < maxAge
\* get(): the value returned, Null for a miss or an expired entry
GetValue(c, imageUrl, prompt, t) ==
  LET i == KeyIndex(c, CacheKey(generateImageHash(imageUrl), prompt))
  IN IF i # 0 /\ EntryFresh(c[i], t) THEN Some(c[i].data) ELSE Null
\* mutant: a hit gives the entry the time of the read
GetCache_Touches(c, imageUrl, prompt, t) ==
  LET key == CacheKey(generateImageHash(imageUrl), prompt)
      i == KeyIndex(c, key)
  IN IF i = 0 THEN c
     ELSE IF ~EntryFresh(c[i], t) THEN MapDelete(c, key)
     ELSE [c EXCEPT ![i].timestamp = t]
\* mutant: a lookup empties the Map
GetCache_DropsAll(c, imageUrl, prompt, t) == <<>>
\* get(): the Map after the lookup (an expired entry is deleted)
GetCache(c, imageUrl, prompt, t) ==
  LET key == CacheKey(generateImageHash(imageUrl), prompt)
      i == KeyIndex(c, key)
  IN IF i # 0 /\ ~EntryFresh(c[i], t) THEN MapDelete(c, key) ELSE c

\* mutant: the first inserted entry, whatever its timestamp
OldestIndex_FirstInserted(c) == 1
\* set(): entries().sort(by timestamp)[0][0]; the sort is stable, so the first
\* inserted of the oldest entries
OldestIndex(c) ==
  CHOOSE i \in DOMAIN c :
    \A j \in DOMAIN c :
      \/ c[i].timestamp < c[j].timestamp
      \/ c[i].timestamp = c[j].timestamp /\ i <= j
\* mutant: evicts only when over capacity
Evicted_WhenOver(c) == IF Len(c) > maxEntries THEN RemoveAt(c, OldestIndex(c)) ELSE c
\* set(): the Map after 'if (this.cache.size >= maxEntries) delete(oldestKey)'
Evicted(c) == IF Len(c) >= maxEntries THEN RemoveAt(c, OldestIndex(c)) ELSE c
\* mutant: nothing is stored
SetCache_Dropped(c, imageUrl, prompt, data, t) == c
SetCache(c, imageUrl, prompt, data, t) ==
  LET h == generateImageHash(imageUrl)
  IN MapSet(Evicted(c),
            [key |-> CacheKey(h, prompt), data |-> data, timestamp |-> t, imageHash |-> h])

\* localStorage item 'geminiApiCache': absent, unparseable text, or the JSON of
\* Object.fromEntries(cache)
StorageAbsent == [kind |-> "absent", entries |-> <<>>]
StorageCorrupt == [kind |-> "corrupt", entries |-> <<>>]
Serialize(c) == [kind |-> "json", entries |-> c]
\* mutant: what cannot be parsed is kept as one entry
loadFromLocalStorage_KeepsJunk(st) ==
  IF st.kind = "json" THEN st.entries
  ELSE <<[key |-> <<st.kind>>, data |-> <<>>, timestamp |-> 0, imageHash |-> <<>>]>>
loadFromLocalStorage(st) == IF st.kind = "json" THEN st.entries ELSE <<>>

\* ------------------------------------------------------------ rate limiter
\* mutant: a timestamp exactly cooldownPeriod old is kept
Prune_KeepsEdge(ts, t) == SelectSeq(ts, LAMBDA x : t - x <= cooldownPeriod)
\* canMakeRequest(): the filter it applies to this.requestTimestamps
Prune(ts, t) == SelectSeq(ts, LAMBDA x : t - x < cooldownPeriod)
\* mutant: length <= maxRequestsPerMinute
canMakeRequest_AtMost(ts, t) == Len(Prune(ts, t)) <= maxRequestsPerMinute
canMakeRequest(ts, t) == Len(Prune(ts, t)) < maxRequestsPerMinute
recordRequest(ts, t) == Append(ts, t)
\* mutant: the newest timestamp of the window instead of the oldest
getNextAvailableTime_Newest(ts, t) ==
  IF canMakeRequest(ts, t) THEN 0
  ELSE Max(0, Prune(ts, t)[Len(Prune(ts, t))] + cooldownPeriod - t)
getNextAvailableTime(ts, t) ==
  IF canMakeRequest(ts, t) THEN 0
  ELSE Max(0, Prune(ts, t)[1] + cooldownPeriod - t)

\* ------------------------------------------------------------------ errors
\* an Error is its message
\* mutant: the message does not say how long to wait
RateLimitError_NoWait(waitTime) == <<"Rate limit", "reached.">>
RateLimitError(waitTime) ==
  <<"Rate limit", "reached.", "Please wait", ToString(CeilSeconds(waitTime)), "seconds.">>
QuotaError == <<"API", "quota", "exceeded.", "Retrying", "automatically...">>
AccessDeniedError == <<"API access denied.", "Please check your API key and billing status.">>
NoCandidatesError == <<"No response generated from Gemini">>
ConfigError == <<"Gemini API key not found.", "Please add VITE_GEMINI_API_KEY to your .env file.">>
\* the TypeError of a fetch() that got no response
FetchFailed == <<"Failed to fetch">>
\* the SyntaxError of response.json() on a body that is no JSON
BodyUnparsable == <<"Unexpected token", "is not valid JSON">>
\* the TypeError of reading data.candidates[0].content of a reply without candidates
ReplyMalformed == <<"Cannot read properties of undefined">>
\* convertImageToBase64 rejects with the img's error Event, which is no Error
ConversionEvent == <<"[object Event]">>
InstanceOfError(thrown) == thrown # ConversionEvent
\* mutant: 'quota' is not looked for
Retryable_ForgetsQuota(err) == Includes(err, "429") \/ Includes(err, "Rate limit")
\* retryWithBackoff's catch: only quota / rate-limit errors are retried
Retryable(err) ==
  Includes(err, "quota") \/ Includes(err, "429") \/ Includes(err, "Rate limit")

\* ------------------------------------------------------------------- state
VARIABLES
  driver,             \* "retry", "cache", "page" or "evict": what drives the code
  now,                \* Date.now()
  ticks,              \* clock jumps taken
  cache,              \* CacheManager.cache
  storage,            \* localStorage['geminiApiCache']
  storageWritable,    \* whether localStorage.setItem succeeds in this session
  requestTimestamps,  \* CacheManager.requestTimestamps
  pc,                 \* where the call / run in progress is suspended
  attempt,            \* retryWithBackoff: attempt
  delay,              \* retryWithBackoff: delay
  lastError,          \* retryWithBackoff: lastError
  callResult,         \* the value operation() / the call resolved with
  callErr,            \* the error the call rejected with
  calls,              \* calls (runs) started by the driver
  faults,             \* failures the operation / the environment has produced
  loads,              \* page loads after the first
  opCalls,            \* this call: invocations of operation()
  opErrors,           \* this call: the errors operation() rejected with, in order
  sleeps,             \* this call: the backoff delays slept, in order
  records,            \* this call: recordRequest() calls
  rejects,            \* this call: attempts refused by the rate-limit check
  inOperation,        \* this attempt: operation() was invoked and has not failed
  fetches,            \* this run: requests sent to the analysis endpoint
  lastQuery,          \* the last canMakeRequest() since the last record: [ok, at]
  fullSince,          \* oldest timestamp of the window when the last record filled it
  lastSet,            \* the set() just completed: its arguments, what get() gave before it
  lastGet,            \* the last get(): its arguments, the entry it found, its result
  apiKey,             \* import.meta.env.VITE_GEMINI_API_KEY is set
  uploadedImage,      \* React state of GenerateReport, as named there
  userDescription,
  isLoading,
  reportData,
  error,
  processingStep,
  retryCount,
  retryDelay,
  cacheStatus,
  rateLimitStatus,
  run,                \* what the running handleGenerateReport closed over at the click
  analysisResponse    \* handleGenerateReport: analysisResponse, once callGeminiVision resolved

clockVars == <<now, ticks>>
mgrVars == <<cache, storage, storageWritable, requestTimestamps>>
retryVars == <<attempt, delay, lastError>>
callVars == <<pc, callResult, callErr>>
countVars == <<calls, faults, loads>>
histVars == <<opCalls, opErrors, sleeps, records, rejects, inOperation, fetches>>
limiterHist == <<lastQuery, fullSince>>
cacheHist == <<lastSet, lastGet>>
inputVars == <<apiKey, uploadedImage, userDescription>>
outcomeVars == <<isLoading, reportData, error, processingStep>>
statusVars == <<retryCount, retryDelay, cacheStatus, rateLimitStatus>>
runVars == <<run, analysisResponse>>
pageVars == <<inputVars, outcomeVars, statusVars, runVars>>
vars == <<driver, clockVars, mgrVars, retryVars, callVars, countVars, histVars, limiterHist,
          cacheHist, pageVars>>

\* the stores a first session can find (the cache driver tries both; the
\* retry driver leaves the cache alone; only the page reads the API key)
InitialStores == {StorageAbsent, StorageCorrupt}

\* the component's useState() initial values
PageMounted ==
  /\ uploadedImage' = Null
  /\ userDescription' = <<>>
  /\ isLoading' = FALSE
  /\ reportData' = Null
  /\ error' = Null
  /\ processingStep' = <<>>
  /\ retryCount' = 0
  /\ retryDelay' = 0
  /\ cacheStatus' = Null
  /\ rateLimitStatus' = Null

Init ==
  /\ driver \in {"retry", "cache", "page", "evict"}
  /\ now = 0
  /\ ticks = 0
  /\ storage \in (IF driver = "cache" THEN InitialStores ELSE {StorageAbsent})
  /\ storageWritable \in (IF driver \in {"retry", "evict"} THEN {TRUE} ELSE BOOLEAN)
  /\ cache = loadFromLocalStorage(storage)
  /\ requestTimestamps = <<>>
  /\ pc = "idle"
  /\ attempt = 0
  /\ delay = initialDelay
  /\ lastError = Null
  /\ callResult = Null
  /\ callErr = Null
  /\ calls = 0
  /\ faults = 0
  /\ loads = 0
  /\ opCalls = 0
  /\ opErrors = <<>>
  /\ sleeps = <<>>
  /\ records = 0
  /\ rejects = 0
  /\ inOperation = FALSE
  /\ fetches = 0
  /\ lastQuery = Null
  /\ fullSince = Null
  /\ lastSet = Null
  /\ lastGet = Null
  /\ apiKey \in (IF driver = "page" THEN BOOLEAN ELSE {TRUE})
  /\ uploadedImage = Null
  /\ userDescription = <<>>
  /\ isLoading = FALSE
  /\ reportData = Null
  /\ error = Null
  /\ processingStep = <<>>
  /\ retryCount = 0
  /\ retryDelay = 0
  /\ cacheStatus = Null
  /\ rateLimitStatus = Null
  /\ run = Null
  /\ analysisResponse = Null

\* ------------------------------------------------------------------- clock
\* the clock jumps the drivers take: to the edge of the rate window (one
\* initialDelay before it closes); to one millisecond before the cache's
\* maxAge, then that millisecond.  On the page the clock jumps after a run,
\* before the page is loaded again; within a run the time that passes is the
\* time slept
TickSteps ==
  IF driver = "retry" THEN {cooldownPeriod - initialDelay}
  ELSE IF ticks % 2 = 0 THEN {maxAge - 1}
  ELSE {1}
Tick ==
  /\ ticks < MaxTicks
  /\ driver = "page" => pc = "done" /\ loads < MaxLoads
  /\ driver = "evict" => Len(cache) >= maxEntries - 1
  /\ \E d \in TickSteps : now' = now + d
  /\ ticks' = ticks + 1
  /\ lastSet' = Null
  /\ UNCHANGED <<driver, mgrVars, retryVars, callVars, countVars, histVars, limiterHist,
                 lastGet, pageVars>>

\* -------------------------------------------------------- retryWithBackoff
\* entry: lastError = null, delay = initialDelay, attempt = 0
RetryEnter ==
  /\ attempt' = 0
  /\ delay' = initialDelay
  /\ lastError' = Null

\* mutant: the catch block never ends the call
CatchThrows_Never(err, att) == FALSE
\* mutant: every error is retried
CatchThrows_RetriesAll(err, att) == ~(att < maxRetries - 1)
\* whether the catch block ends the call for the error err of attempt att:
\* a non-retryable error is thrown at once, the last attempt's error when the
\* loop ends
CatchThrows(err, att) == ~Retryable(err) \/ ~(att < maxRetries - 1)

\* the catch block, for the error err of this attempt
RetryCatch(err) ==
  /\ lastError' = Some(err)
  /\ inOperation' = FALSE
  /\ attempt' = IF Retryable(err) /\ ~(attempt < maxRetries - 1) THEN attempt + 1 ELSE attempt
  /\ callErr' = IF CatchThrows(err, attempt) THEN Some(err) ELSE callErr
  /\ UNCHANGED delay

\* mutant: the request is recorded twice
RetryReturn_RecordsTwice ==
  /\ requestTimestamps' = recordRequest(recordRequest(requestTimestamps, now), now)
  /\ records' = records + 1
  /\ inOperation' = FALSE
  /\ lastQuery' = Null
  /\ fullSince' =
       IF Len(Prune(requestTimestamps', now)) >= maxRequestsPerMinute
       THEN Some(Prune(requestTimestamps', now)[1])
       ELSE Null
  /\ UNCHANGED <<retryVars, callErr>>
\* operation() resolved: recordRequest(), return result
RetryReturn ==
  /\ requestTimestamps' = recordRequest(requestTimestamps, now)
  /\ records' = records + 1
  /\ inOperation' = FALSE
  /\ lastQuery' = Null
  /\ fullSince' =
       IF Len(Prune(requestTimestamps', now)) >= maxRequestsPerMinute
       THEN Some(Prune(requestTimestamps', now)[1])
       ELSE Null
  /\ UNCHANGED <<retryVars, callErr>>

\* mutant: the check itself counts as a request
RateCheck_Records ==
  /\ requestTimestamps' = recordRequest(Prune(requestTimestamps, now), now)
  /\ lastQuery' = Some([ok |-> canMakeRequest(requestTimestamps, now), at |-> now])
  /\ UNCHANGED fullSince
\* the canMakeRequest() that opens an attempt
RateCheck ==
  /\ requestTimestamps' = Prune(requestTimestamps, now)
  /\ lastQuery' = Some([ok |-> canMakeRequest(requestTimestamps, now), at |-> now])
  /\ UNCHANGED fullSince

\* mutant: the delay is not increased
Sleep_SameDelay ==
  /\ pc = "sleeping"
  /\ now' = now + delay
  /\ sleeps' = Append(sleeps, delay)
  /\ delay' = delay
  /\ attempt' = attempt + 1
  /\ pc' = "attempt"
  /\ UNCHANGED <<driver, ticks, mgrVars, lastError, callResult, callErr, countVars,
                 opCalls, opErrors, rejects, records, inOperation, fetches, limiterHist,
                 cacheHist, pageVars>>
\* setTimeout(resolve, delay) fired
Sleep ==
  /\ pc = "sleeping"
  /\ now' = now + delay
  /\ sleeps' = Append(sleeps, delay)
  /\ delay' = Min(delay * backoffFactor, maxDelay)
  /\ attempt' = attempt + 1
  /\ pc' = "attempt"
  /\ UNCHANGED <<driver, ticks, mgrVars, lastError, callResult, callErr, countVars,
                 opCalls, opErrors, rejects, records, inOperation, fetches, limiterHist,
                 cacheHist, pageVars>>

\* the call is over and its locals are gone
CallLocalsGone ==
  /\ attempt' = 0
  /\ delay' = initialDelay
  /\ lastError' = Null
  /\ callResult' = Null
  /\ callErr' = Null
  /\ opCalls' = 0
  /\ opErrors' = <<>>
  /\ sleeps' = <<>>
  /\ records' = 0
  /\ rejects' = 0
  /\ inOperation' = FALSE
  /\ fetches' = 0

\* ------------------------------------------------- driver "retry": any operation
OpValues == {<<"r1">>}
OpErrors == {QuotaError, AccessDeniedError, NoCandidatesError,
             <<"Gemini API error:", "quota", "exhausted">>,
             <<"API request failed with status", "500">>}

RetryCall ==
  /\ driver = "retry"
  /\ pc = "idle"
  /\ calls < MaxCalls
  /\ calls' = calls + 1
  /\ RetryEnter
  /\ pc' = "attempt"
  /\ UNCHANGED <<driver, clockVars, mgrVars, callResult, callErr, faults, loads, histVars,
                 limiterHist, cacheHist, pageVars>>

\* one pass of the for loop up to the await of operation()
RetryAttempt ==
  /\ driver = "retry"
  /\ pc = "attempt"
  /\ IF attempt >= maxRetries
     THEN /\ pc' = "threw"
          /\ callErr' = lastError
          /\ UNCHANGED <<requestTimestamps, retryVars, histVars, limiterHist>>
     ELSE /\ RateCheck
          /\ IF ~canMakeRequest(requestTimestamps, now)
             THEN LET err == RateLimitError(getNextAvailableTime(requestTimestamps, now))
                  IN /\ rejects' = rejects + 1
                     /\ RetryCatch(err)
                     /\ pc' = IF CatchThrows(err, attempt) THEN "threw" ELSE "sleeping"
                     /\ UNCHANGED <<opCalls, opErrors, sleeps, records, fetches>>
             ELSE /\ opCalls' = opCalls + 1
                  /\ inOperation' = TRUE
                  /\ pc' = "operation"
                  /\ UNCHANGED <<retryVars, callErr, opErrors, sleeps, records, rejects,
                                 fetches>>
  /\ UNCHANGED <<driver, clockVars, cache, storage, storageWritable, callResult, countVars,
                 cacheHist, pageVars>>

OperationResolves ==
  /\ driver = "retry"
  /\ pc = "operation"
  /\ \E v \in OpValues : callResult' = Some(v)
  /\ RetryReturn
  /\ pc' = "returned"
  /\ UNCHANGED <<driver, clockVars, cache, storage, storageWritable, countVars,
                 opCalls, opErrors, sleeps, rejects, fetches, cacheHist, pageVars>>

OperationRejects ==
  /\ driver = "retry"
  /\ pc = "operation"
  /\ faults < MaxFaults
  /\ faults' = faults + 1
  /\ \E err \in OpErrors :
       /\ opErrors' = Append(opErrors, err)
       /\ RetryCatch(err)
       /\ pc' = IF CatchThrows(err, attempt) THEN "threw" ELSE "sleeping"
  /\ UNCHANGED <<driver, clockVars, mgrVars, callResult, calls, loads,
                 opCalls, sleeps, records, rejects, fetches, limiterHist, cacheHist, pageVars>>

\* the caller has the outcome; the next call may start
RetryDone ==
  /\ driver = "retry"
  /\ pc \in {"returned", "threw"}
  /\ pc' = "idle"
  /\ CallLocalsGone
  /\ UNCHANGED <<driver, clockVars, mgrVars, countVars, limiterHist, cacheHist, pageVars>>

NextRetry == RetryCall \/ RetryAttempt \/ OperationResolves \/ OperationRejects
             \/ Sleep \/ RetryDone \/ Tick

\* the module-level cacheManager of a first session, used by retryWithBackoff
InitRetry == Init /\ driver = "retry"

SpecRetry == InitRetry /\ [][NextRetry]_vars

\* ------------------------------------------- driver "cache": get / set / reload
Prompts == {<<"p">>, <<"q">>}
Texts == {<<>>, <<"x">>}
\* what get() answers for every image and prompt, on the cache c at time t
Answers(c, t) == [a \in Images \X Prompts |-> GetValue(c, a[1], a[2], t)]
\* the entry get() finds for the image and the prompt, Null when there is none
Found(c, imageUrl, prompt) ==
  LET i == KeyIndex(c, CacheKey(generateImageHash(imageUrl), prompt))
  IN IF i = 0 THEN Null ELSE Some(c[i])

\* mutant: nothing is written
saveToLocalStorage_Never(c, st, writable) == st
\* saveToLocalStorage(): setItem may throw (quota, private mode); the error is swallowed
saveToLocalStorage(c, st, writable) == IF writable THEN Serialize(c) ELSE st

\* get(imageUrl, prompt), from the hash on
DoGet(imageUrl, prompt) ==
  /\ cache' = GetCache(cache, imageUrl, prompt, now)
  /\ lastGet' = Some([image |-> imageUrl, prompt |-> prompt, at |-> now,
                      found |-> Found(cache, imageUrl, prompt),
                      value |-> GetValue(cache, imageUrl, prompt, now),
                      after |-> lastSet])
  /\ lastSet' = Null
  /\ UNCHANGED <<storage, storageWritable>>

\* set(imageUrl, prompt, data), from the hash on
DoSet(imageUrl, prompt, data) ==
  /\ cache' = SetCache(cache, imageUrl, prompt, data, now)
  /\ storage' = saveToLocalStorage(cache', storage, storageWritable)
  /\ lastSet' = Some([image |-> imageUrl, prompt |-> prompt, data |-> data,
                      before |-> Answers(cache, now)])
  /\ UNCHANGED storageWritable

CacheGet ==
  /\ driver = "cache"
  /\ calls < MaxCacheOps
  /\ calls' = calls + 1
  /\ \E imageUrl \in Images, prompt \in Prompts : DoGet(imageUrl, prompt)
  /\ UNCHANGED <<driver, clockVars, requestTimestamps, retryVars, callVars, faults, loads,
                 histVars, limiterHist, pageVars>>

CacheSet ==
  /\ driver = "cache"
  /\ calls < MaxCacheOps
  /\ calls' = calls + 1
  /\ \E imageUrl \in Images, prompt \in Prompts, data \in Texts : DoSet(imageUrl, prompt, data)
  /\ lastGet' = Null
  /\ UNCHANGED <<driver, clockVars, requestTimestamps, retryVars, callVars, faults, loads,
                 histVars, limiterHist, pageVars>>

\* a later session: new CacheManager() over the same localStorage
CacheReload ==
  /\ driver = "cache"
  /\ calls < MaxCacheOps
  /\ calls' = calls + 1
  /\ cache' = loadFromLocalStorage(storage)
  /\ requestTimestamps' = <<>>
  /\ storageWritable' \in BOOLEAN
  /\ lastSet' = Null
  /\ lastGet' = Null
  /\ UNCHANGED <<driver, clockVars, storage, retryVars, callVars, faults, loads, histVars,
                 limiterHist, pageVars>>

NextCache == CacheGet \/ CacheSet \/ CacheReload \/ Tick

InitCache == Init /\ driver = "cache"

SpecCache == InitCache /\ [][NextCache]_vars

\* --------------------------------------------- driver "page": GenerateReport
PageImages == {"imgA", "imgB"}
\* what the user types: blanks only, or a real description
Descriptions == {<<" ">>, <<"crack">>}
\* mutant: nothing is trimmed
Trim_Nothing(d) == d
\* String.prototype.trim, on the characters of the description
Trim(d) == SelectSeq(d, LAMBDA ch : ch # " ")
\* fullPrompt: SYSTEM_PROMPT, the user's description, the JSON format wanted
FullPrompt(description) ==
  <<"SYSTEM_PROMPT", "User's Infrastructure Description:">> \o description
    \o <<"Please provide your response in the following JSON format:">>

ImageMissing == <<"Please upload an image of the infrastructure.">>
DescriptionMissing ==
  <<"Please provide a description of the infrastructure and what needs to be completed.">>
ConvertingStep == <<"Converting image...">>
AnalyzingStep == <<"Analyzing infrastructure with Gemini AI...">>
GeneratingStep == <<"Generating completed infrastructure visualization...">>
UsingCached == <<"Using cached result">>
CacheMiss == <<"Cache miss - calling API">>

\* if (cachedResult): null and the empty string are falsy
Truthy(opt) == opt # Null /\ opt[1] # <<>>

\* the texts the analysis endpoint answers with: nothing; prose that quotes
\* and holds braces but no JSON; the JSON asked for; that JSON followed by a
\* remark in braces; a JSON object that has only a repair_description
PageTexts == {<<>>, <<"beam", "\"", "{", "6 m", "}">>, <<"{", "full", "}">>,
              <<"{", "full", "}", "{", "approx", "}">>, <<"{", "partial", "}">>}
\* analysisResponse.match(/\{[\s\S]*\}/): from the first "{" to the last "}"
JsonMatch(text) ==
  LET opens == {i \in DOMAIN text : text[i] = "{"}
      closes == {i \in DOMAIN text : text[i] = "}"}
  IN IF opens = {} THEN Null
     ELSE LET first == CHOOSE i \in opens : \A j \in opens : i <= j
              after == {i \in closes : i > first}
          IN IF after = {} THEN Null
             ELSE LET last == CHOOSE i \in after : \A j \in after : j <= i
                  IN Some(SubSeq(text, first, last))
\* JSON.parse of the matched block: Null when it throws
ParseJson(block) ==
  IF block = <<"{", "full", "}">>
  THEN Some([repair_description |->
               [current_state |-> <<"described">>,
                completion_requirements |-> <<"listed">>,
                safety_measures |-> <<"required">>,
                recommendations |-> <<"recommended">>],
             cost_estimation |-> [total |-> <<"estimated">>],
             timeline |-> [estimated_duration |-> <<"planned">>]])
  ELSE IF block = <<"{", "partial", "}">>
  THEN Some([repair_description |-> [current_state |-> <<"described">>]])
  ELSE Null
\* the value of a property the object does not have
Undefined == [undefined |-> TRUE]
\* obj.f
Field(obj, f) == IF f \in DOMAIN obj THEN obj[f] ELSE Undefined
\* the fixed cost and timeline of the fallback
FallbackCost == [total |-> <<"3,00,000 INR">>]
FallbackTimeline == [estimated_duration |-> <<"3 months">>]
\* mutant: the fallback does not carry the response text
FallbackResponse_FixedText(text) ==
  [repair_description |->
     [current_state |-> <<"Analysis unavailable">>,
      completion_requirements |-> <<"See detailed analysis above">>,
      safety_measures |-> <<"Standard safety protocols apply">>,
      recommendations |-> <<"Follow standard construction guidelines">>],
   cost_estimation |-> FallbackCost,
   timeline |-> FallbackTimeline]
\* the fallback object of the catch (parseError) block
FallbackResponse(text) ==
  [repair_description |->
     [current_state |-> text,
      completion_requirements |-> <<"See detailed analysis above">>,
      safety_measures |-> <<"Standard safety protocols apply">>,
      recommendations |-> <<"Follow standard construction guidelines">>],
   cost_estimation |-> FallbackCost,
   timeline |-> FallbackTimeline]
ParsedResponse(text) ==
  IF JsonMatch(text) # Null /\ ParseJson(JsonMatch(text)[1]) # Null
  THEN ParseJson(JsonMatch(text)[1])[1]
  ELSE FallbackResponse(text)
\* JSON.stringify of a string: quoted, every quote character escaped
JsonString(text) ==
  <<"\"">> \o [i \in DOMAIN text |-> IF text[i] = "\"" THEN "\\\"" ELSE text[i]]
    \o <<"\"">>
\* JSON.stringify(value, null, 2) of an object of strings: its members' JSON
\* (JSON.stringify(undefined) is undefined)
Stringify(value) ==
  IF value = Undefined THEN Undefined
  ELSE [f \in DOMAIN value |-> JsonString(value[f])]
FinalReportData(url, text) ==
  [repaired_image_url |-> url,
   repair_description |-> Stringify(Field(ParsedResponse(text), "repair_description")),
   cost_estimation |-> Field(ParsedResponse(text), "cost_estimation"),
   timeline |-> Field(ParsedResponse(text), "timeline")]

GeneratedImage == "data:image/png;base64"
PlaceholderImage == "data:image/svg+xml;base64"

\* the catch block's message for what was thrown; count is the retryCount the
\* running handler closed over
FailedPrefix == <<"Failed to generate report.">>
MaxRetriesNotice == <<"Maximum retry attempts reached.", "API Quota Exceeded">>
RetryingMessage(count) ==
  <<"Retrying", "automatically", "(Attempt", ToString(count + 1), "/",
    ToString(maxRetries), ")...">>
ErrorMessage(thrown, count) ==
  IF InstanceOfError(thrown)
  THEN IF Includes(thrown, "quota") \/ Includes(thrown, "429")
       THEN IF count >= maxRetries
            THEN FailedPrefix \o MaxRetriesNotice
            ELSE RetryingMessage(count)
       ELSE FailedPrefix \o thrown
  ELSE FailedPrefix \o <<"An unexpected error occurred. Please try again.">>

\* finally: the loading flag is reset when the closed-over retryCount allows
Finally == IF run[1].retryCount >= maxRetries THEN FALSE ELSE isLoading

\* handleGenerateReport's catch and finally, for what was thrown
PageCatch(thrown) ==
  /\ error' = Some(ErrorMessage(thrown, run[1].retryCount))
  /\ processingStep' =
       IF Includes(ErrorMessage(thrown, run[1].retryCount), "Retrying")
       THEN processingStep ELSE <<>>
  /\ isLoading' = Finally
  /\ pc' = "done"

\* the run goes on to its next await
PageGoesOn(step, next) ==
  /\ processingStep' = step
  /\ pc' = next
  /\ UNCHANGED <<error, isLoading>>

\* the user picks a file: ImageUploader calls onImageUpload
handleImageUpload ==
  /\ driver = "page"
  /\ \E url \in PageImages : uploadedImage' = Some(url)
  /\ error' = Null
  /\ reportData' = Null
  /\ UNCHANGED <<driver, clockVars, mgrVars, retryVars, callVars, countVars, histVars,
                 limiterHist, cacheHist, apiKey, userDescription, isLoading,
                 processingStep, statusVars, runVars>>

\* the user edits the description (while a run is loading the edit is read by
\* nothing: the run closed over the old text)
setUserDescription ==
  /\ driver = "page"
  /\ ~isLoading
  /\ \E d \in Descriptions : userDescription' = d
  /\ UNCHANGED <<driver, clockVars, mgrVars, retryVars, callVars, countVars, histVars,
                 limiterHist, cacheHist, apiKey, uploadedImage, outcomeVars, statusVars,
                 runVars>>

\* mutant: the button is enabled while a run is loading
canGenerateReport_WhileLoading == uploadedImage # Null
\* the button is disabled unless canGenerateReport
canGenerateReport == uploadedImage # Null /\ ~isLoading

\* a click on the enabled button: the handler up to the await of
\* convertImageToBase64
handleGenerateReport ==
  /\ driver = "page"
  /\ canGenerateReport
  /\ IF uploadedImage = Null
     THEN /\ error' = Some(ImageMissing)
          /\ UNCHANGED <<retryVars, callVars, calls, histVars, isLoading, reportData,
                         processingStep, statusVars, runVars>>
     ELSE IF Trim(userDescription) = <<>>
     THEN /\ error' = Some(DescriptionMissing)
          /\ UNCHANGED <<retryVars, callVars, calls, histVars, isLoading, reportData,
                         processingStep, statusVars, runVars>>
     ELSE /\ isLoading' = TRUE
          /\ error' = Null
          /\ processingStep' = ConvertingStep
          /\ retryCount' = 0
          /\ retryDelay' = 0
          /\ run' = Some([image |-> uploadedImage[1], description |-> userDescription,
                          retryCount |-> retryCount])
          /\ analysisResponse' = Null
          /\ CallLocalsGone
          /\ calls' = calls + 1
          /\ pc' = "converting"
          /\ UNCHANGED <<reportData, cacheStatus, rateLimitStatus>>
  /\ UNCHANGED <<driver, clockVars, mgrVars, faults, loads, limiterHist, cacheHist,
                 inputVars>>

\* convertImageToBase64 settles; then fullPrompt and callGeminiVision up to
\* the await of cacheManager.get
ConversionSettles ==
  /\ driver = "page"
  /\ pc = "converting"
  /\ \/ /\ IF ~apiKey
           THEN PageCatch(ConfigError)
           ELSE PageGoesOn(AnalyzingStep, "lookup")
        /\ UNCHANGED faults
     \/ /\ faults < MaxFaults
        /\ faults' = faults + 1
        /\ PageCatch(ConversionEvent)
  /\ UNCHANGED <<driver, clockVars, mgrVars, retryVars, callResult, callErr, calls, loads,
                 histVars, limiterHist, cacheHist, inputVars, reportData, statusVars,
                 runVars>>

\* cacheManager.get settles (its hash may fail); a truthy value is the
\* analysis, anything else starts retryWithBackoff
CacheLookup ==
  /\ driver = "page"
  /\ pc = "lookup"
  /\ \/ /\ DoGet(run[1].image, FullPrompt(run[1].description))
        /\ LET cachedResult == GetValue(cache, run[1].image,
                                        FullPrompt(run[1].description), now)
           IN IF Truthy(cachedResult)
              THEN /\ cacheStatus' = Some(UsingCached)
                   /\ analysisResponse' = cachedResult
                   /\ PageGoesOn(GeneratingStep, "describing")
                   /\ UNCHANGED retryVars
              ELSE /\ cacheStatus' = Some(CacheMiss)
                   /\ RetryEnter
                   /\ PageGoesOn(processingStep, "attempt")
                   /\ UNCHANGED analysisResponse
        /\ UNCHANGED faults
     \/ /\ faults < MaxFaults
        /\ faults' = faults + 1
        /\ PageCatch(FetchFailed)
        /\ UNCHANGED <<mgrVars, retryVars, cacheHist, cacheStatus, analysisResponse>>
  /\ UNCHANGED <<driver, clockVars, requestTimestamps, callResult, callErr, calls, loads,
                 histVars, limiterHist, inputVars, reportData, retryCount, retryDelay,
                 rateLimitStatus, run>>

\* one pass of retryWithBackoff's loop up to the fetch of the operation; the
\* operation's own canMakeRequest() runs right after the loop's and agrees with it
AnalysisAttempt ==
  /\ driver = "page"
  /\ pc = "attempt"
  /\ attempt < maxRetries
  /\ RateCheck
  /\ IF ~canMakeRequest(requestTimestamps, now)
     THEN LET err == RateLimitError(getNextAvailableTime(requestTimestamps, now))
          IN /\ rejects' = rejects + 1
             /\ RetryCatch(err)
             /\ IF CatchThrows(err, attempt)
                THEN PageCatch(err)
                ELSE PageGoesOn(processingStep, "sleeping")
             /\ UNCHANGED <<opCalls, opErrors, sleeps, records, fetches>>
     ELSE /\ opCalls' = opCalls + 1
          /\ inOperation' = TRUE
          /\ fetches' = fetches + 1
          /\ PageGoesOn(processingStep, "fetching")
          /\ UNCHANGED <<retryVars, callErr, opErrors, sleeps, records, rejects>>
  /\ UNCHANGED <<driver, clockVars, cache, storage, storageWritable, callResult, countVars,
                 cacheHist, inputVars, reportData, statusVars, runVars>>

\* the analysis endpoint answers 200 with a candidate: cache it, reset the
\* status fields, recordRequest(), and on to the visualization's first fetch
AnalysisSucceeds ==
  /\ driver = "page"
  /\ pc = "fetching"
  /\ \E text \in PageTexts :
       /\ DoSet(run[1].image, FullPrompt(run[1].description), text)
       /\ analysisResponse' = Some(text)
  /\ retryCount' = 0
  /\ retryDelay' = 0
  /\ cacheStatus' = Null
  /\ rateLimitStatus' = Null
  /\ RetryReturn
  /\ PageGoesOn(GeneratingStep, "describing")
  /\ UNCHANGED <<driver, clockVars, callResult, countVars, opCalls, opErrors, sleeps,
                 rejects, fetches, lastGet, inputVars, reportData, run>>

\* the ways the operation fails: [status, err]; status 0 is no response at all,
\* 200 a reply without candidates
AnalysisFailures ==
  {[status |-> 429, err |-> QuotaError],
   [status |-> 403, err |-> AccessDeniedError],
   [status |-> 503, err |-> <<"Gemini API error:", "quota", "exhausted">>],
   [status |-> 200, err |-> NoCandidatesError],
   [status |-> 0, err |-> FetchFailed]}

\* the operation rejects: retryWithBackoff's catch, and the page's when it throws
AnalysisFails ==
  /\ driver = "page"
  /\ pc = "fetching"
  /\ faults < MaxFaults
  /\ faults' = faults + 1
  /\ \E f \in AnalysisFailures :
       /\ opErrors' = Append(opErrors, f.err)
       /\ retryCount' = IF f.status = 429 THEN retryCount + 1 ELSE retryCount
       /\ retryDelay' =
            IF f.status = 429
            THEN Min(IF retryDelay * 2 = 0 THEN initialDelay ELSE retryDelay * 2, maxDelay)
            ELSE retryDelay
       /\ RetryCatch(f.err)
       /\ IF CatchThrows(f.err, attempt)
          THEN PageCatch(f.err)
          ELSE PageGoesOn(processingStep, "sleeping")
  /\ UNCHANGED <<driver, clockVars, mgrVars, callResult, calls, loads, opCalls, sleeps,
                 records, rejects, fetches, limiterHist, cacheHist, inputVars, reportData,
                 cacheStatus, rateLimitStatus, runVars>>

\* what generateImageDescription throws: a non-2xx reply, one whose message
\* speaks of quota, a reply without candidates, no response
DescriptionErrors ==
  {<<"Gemini API error:", "Unknown error">>,
   <<"Gemini API error:", "quota", "exhausted">>,
   ReplyMalformed, FetchFailed}

\* generateImageDescription's fetch settles; on success the Imagen fetch follows
DescriptionSettles ==
  /\ driver = "page"
  /\ pc = "describing"
  /\ \/ /\ PageGoesOn(processingStep, "synthesizing")
        /\ UNCHANGED faults
     \/ /\ faults < MaxFaults
        /\ faults' = faults + 1
        /\ \E err \in DescriptionErrors : PageCatch(err)
  /\ UNCHANGED <<driver, clockVars, mgrVars, retryVars, callResult, callErr, calls, loads,
                 histVars, limiterHist, cacheHist, inputVars, reportData, statusVars,
                 runVars>>

\* the Imagen fetch settles: an image, the placeholder (non-2xx with a JSON
\* body, or no generatedImages), or a throw (no response, unparsable body);
\* then the report is assembled
SynthesisSettles ==
  /\ driver = "page"
  /\ pc = "synthesizing"
  /\ \/ /\ \E url \in {GeneratedImage, PlaceholderImage} :
             reportData' = Some(FinalReportData(url, analysisResponse[1]))
        /\ processingStep' = <<>>
        /\ isLoading' = Finally
        /\ pc' = "done"
        /\ UNCHANGED <<error, faults>>
     \/ /\ faults < MaxFaults
        /\ faults' = faults + 1
        /\ \E err \in {FetchFailed, BodyUnparsable} : PageCatch(err)
        /\ UNCHANGED reportData
  /\ UNCHANGED <<driver, clockVars, mgrVars, retryVars, callResult, callErr, calls, loads,
                 histVars, limiterHist, cacheHist, inputVars, statusVars, runVars>>

\* the page is loaded again after a run: a new module instance (new
\* CacheManager over the same localStorage), a newly mounted component
PageLoad ==
  /\ driver = "page"
  /\ pc = "done"
  /\ loads < MaxLoads
  /\ loads' = loads + 1
  /\ PageMounted
  /\ cache' = loadFromLocalStorage(storage)
  /\ requestTimestamps' = <<>>
  /\ run' = Null
  /\ analysisResponse' = Null
  /\ pc' = "idle"
  /\ CallLocalsGone
  /\ calls' = 0
  /\ lastQuery' = Null
  /\ fullSince' = Null
  /\ lastSet' = Null
  /\ lastGet' = Null
  /\ UNCHANGED <<driver, clockVars, storage, storageWritable, faults, apiKey>>

NextPage ==
  \/ handleImageUpload \/ setUserDescription \/ handleGenerateReport
  \/ ConversionSettles \/ CacheLookup \/ AnalysisAttempt \/ AnalysisSucceeds
  \/ AnalysisFails \/ Sleep \/ DescriptionSettles \/ SynthesisSettles
  \/ PageLoad \/ Tick

InitPage == Init /\ driver = "page"

SpecPage == InitPage /\ [][NextPage]_vars

\* every awaited promise settles: the image loads or errors, crypto and fetch
\* answer or fail, and a timer fires
FairPage ==
  /\ WF_vars(ConversionSettles)
  /\ WF_vars(CacheLookup)
  /\ WF_vars(AnalysisAttempt)
  /\ WF_vars(AnalysisSucceeds \/ AnalysisFails)
  /\ WF_vars(Sleep)
  /\ WF_vars(DescriptionSettles)
  /\ WF_vars(SynthesisSettles)

SpecPageFair == SpecPage /\ FairPage

\* ---------------------------- driver "evict": set() and get() up to a full cache
\* the prompt of the n-th analysis
NumberedPrompt(n) == <<ToString(n)>>
\* a prompt the cache has no entry for: the lowest-numbered one
NewPrompt(c) ==
  NumberedPrompt(CHOOSE n \in 1..(maxEntries + 1) :
    /\ KeyIndex(c, CacheKey(generateImageHash("imgA"), NumberedPrompt(n))) = 0
    /\ \A m \in 1..(n - 1) :
         KeyIndex(c, CacheKey(generateImageHash("imgA"), NumberedPrompt(m))) # 0)
\* the prompt of the entry at position i of the Map: the key after the hash and the "-"
PromptAt(c, i) == SubSeq(c[i].key, DigestLen + 2, Len(c[i].key))

\* set() of a new result while the cache is not yet one short of full
FillSet ==
  /\ driver = "evict"
  /\ Len(cache) < maxEntries - 1
  /\ DoSet("imgA", NewPrompt(cache), <<"x">>)
  /\ lastGet' = Null
  /\ UNCHANGED <<driver, clockVars, requestTimestamps, retryVars, callVars, countVars,
                 histVars, limiterHist, pageVars>>

\* set() on a cache that is full or one short of it: of a new result, or again
\* for one of the two first-inserted entries
FullSet ==
  /\ driver = "evict"
  /\ Len(cache) >= maxEntries - 1
  /\ calls < MaxEvictOps
  /\ calls' = calls + 1
  /\ \E prompt \in {NewPrompt(cache), PromptAt(cache, 1), PromptAt(cache, 2)} :
       DoSet("imgA", prompt, <<"x">>)
  /\ lastGet' = Null
  /\ UNCHANGED <<driver, clockVars, requestTimestamps, retryVars, callVars, faults, loads,
                 histVars, limiterHist, pageVars>>

\* get() on a cache that is full or one short of it, for the first-inserted entry
FullGet ==
  /\ driver = "evict"
  /\ Len(cache) >= maxEntries - 1
  /\ calls < MaxEvictOps
  /\ calls' = calls + 1
  /\ DoGet("imgA", PromptAt(cache, 1))
  /\ UNCHANGED <<driver, clockVars, requestTimestamps, retryVars, callVars, faults, loads,
                 histVars, limiterHist, pageVars>>

NextEvict == FillSet \/ FullSet \/ FullGet \/ Tick

InitEvict == Init /\ driver = "evict"

SpecEvict == InitEvict /\ [][NextEvict]_vars

\* ------------------------------------------------------- drivers together
\* every caller of retryWithBackoff: any operation, and the page's analysis call
NextCalls == NextRetry \/ NextPage

InitCalls == Init /\ driver \in {"retry", "page"}

SpecCalls == InitCalls /\ [][NextCalls]_vars

Next == NextRetry \/ NextCache \/ NextPage \/ NextEvict

Spec == Init /\ [][Next]_vars

\* ================================================================== claims
\* the claims' own reading of "retryable": the message holds 'quota', '429'
\* or 'Rate limit'
SaysRetryable(err) ==
  \E i \in DOMAIN err : err[i] \in {"quota", "429", "Rate limit"}
ValidCount == Cardinality({i \in DOMAIN requestTimestamps :
                            now - requestTimestamps[i] < cooldownPeriod})

\* C1: a retryWithBackoff call in which every attempt invoked the operation and
\* the operation failed with a retryable error each time has invoked it exactly
\* maxRetries times when it fails, and fails with the last of these errors; no
\* call invokes the operation more than maxRetries times.
C1_ExactlyMaxRetries ==
  /\ opCalls <= maxRetries
  /\ (/\ pc = "threw"
      /\ rejects = 0
      /\ Len(opErrors) = opCalls
      /\ \A i \in DOMAIN opErrors : SaysRetryable(opErrors[i]))
     => /\ opCalls = maxRetries
        /\ callErr = Some(opErrors[maxRetries])
C1_Witness ==
  /\ pc = "threw"
  /\ rejects = 0
  /\ opCalls = maxRetries
  /\ Len(opErrors) = maxRetries
  /\ \A i \in DOMAIN opErrors : SaysRetryable(opErrors[i])

\* C2 (as claimed): a call whose operation fails with a non-retryable error has
\* invoked the operation once, has slept no backoff delay, and fails with that error.
C2_NoSleepAtAll ==
  (pc = "threw" /\ opErrors # <<>> /\ ~SaysRetryable(opErrors[1]))
    => /\ opCalls = 1
       /\ sleeps = <<>>
       /\ callErr = Some(opErrors[1])
\* C2 (amended): ... has invoked the operation once, fails with that error, and
\* the failure is followed by no sleep: the call has slept once for each earlier
\* attempt the rate-limit check refused, and not otherwise.  At any moment a
\* non-retryable error of the operation is its last, and the call has failed with it.
C2_NonRetryableOnce ==
  /\ (pc = "threw" /\ opErrors # <<>> /\ ~SaysRetryable(opErrors[1]))
       => /\ opCalls = 1
          /\ Len(sleeps) = rejects
          /\ callErr = Some(opErrors[1])
  /\ \A i \in DOMAIN opErrors :
       ~SaysRetryable(opErrors[i])
         => i = Len(opErrors) /\ pc = "threw" /\ callErr = Some(opErrors[i])
C2_Witness ==
  /\ pc = "threw"
  /\ opErrors = <<AccessDeniedError>>
  /\ opCalls = 1
  /\ rejects = 1
  /\ callErr = Some(AccessDeniedError)

\* C6: the rate window never holds more than maxRequestsPerMinute timestamps
\* younger than cooldownPeriod, and right after a canMakeRequest() query it holds
\* no other timestamps either.
C6_WindowBounded ==
  /\ ValidCount <= maxRequestsPerMinute
  /\ lastQuery # Null /\ lastQuery[1].at = now
       => Len(requestTimestamps) <= maxRequestsPerMinute
C6_Witness ==
  /\ ValidCount = maxRequestsPerMinute
  /\ lastQuery # Null
  /\ lastQuery[1].at = now

\* C7: once a record has filled the window (maxRequestsPerMinute timestamps
\* younger than cooldownPeriod, the oldest being fullSince), canMakeRequest()
\* answers false as long as cooldownPeriod has not elapsed since that oldest
\* timestamp, and true from then on, no record coming in between.
C7_FullThenFree ==
  (fullSince # Null /\ lastQuery # Null)
    => (lastQuery[1].ok <=> lastQuery[1].at >= fullSince[1] + cooldownPeriod)
C7_Witness ==
  /\ fullSince # Null
  /\ lastQuery # Null
  /\ lastQuery[1].ok
  /\ lastQuery[1].at = fullSince[1] + cooldownPeriod

\* C9: a get() that comes right after a set() (no other operation, no time in
\* between) answers the value just set when it asks for the same image bytes and
\* prompt; asked for another (image hash, prompt) pair it answers what that pair
\* had before the set(), or null, never the entry just set.
C9_SetThenGet ==
  (lastGet # Null /\ lastGet[1].after # Null)
    => LET g == lastGet[1]
           st == g.after[1]
       IN IF Bytes(g.image) = Bytes(st.image) /\ g.prompt = st.prompt
          THEN g.value = Some(st.data)
          ELSE g.value \in {st.before[<<g.image, g.prompt>>], Null}
C9_Witness ==
  /\ lastGet # Null
  /\ lastGet[1].after # Null
  /\ lastGet[1].image # lastGet[1].after[1].image
  /\ Bytes(lastGet[1].image) = Bytes(lastGet[1].after[1].image)
  /\ lastGet[1].prompt = lastGet[1].after[1].prompt
  /\ lastGet[1].value = Some(<<"x">>)

\* C10: get() never answers from an entry whose age is maxAge or more: it
\* answers null and the entry is gone from the cache; a younger entry is
\* answered and stays.
C10_ExpiredNeverReturned ==
  (lastGet # Null /\ lastGet[1].found # Null)
    => LET g == lastGet[1]
           e == g.found[1]
       IN IF g.at - e.timestamp >= maxAge
          THEN g.value = Null /\ Found(cache, g.image, g.prompt) = Null
          ELSE g.value = Some(e.data) /\ Found(cache, g.image, g.prompt) = Some(e)
C10_Witness ==
  /\ lastGet # Null
  /\ lastGet[1].found # Null
  /\ lastGet[1].at - lastGet[1].found[1].timestamp = maxAge
  /\ lastGet[1].value = Null
  /\ Found(cache, lastGet[1].image, lastGet[1].prompt) = Null

\* C3 (as claimed): a page run whose analysis call was answered 429 on three
\* attempts has ended with an error message that says the maximum retry attempts
\* were reached, and is no "retrying" message.
C3_QuotaExhaustedMessage ==
  (driver = "page" /\ pc = "done" /\ error # Null
     /\ opErrors = <<QuotaError, QuotaError, QuotaError>>)
    => /\ Includes(error[1], "Maximum retry attempts reached.")
       /\ ~Includes(error[1], "Retrying")

\* C4 (as claimed): a page run whose analysis step succeeded never ends with an
\* error, whatever the visualization's two requests do.
C4_VisualizationNeverFails ==
  (driver = "page" /\ pc = "done" /\ analysisResponse # Null) => error = Null

\* C5 (as claimed): a page run whose cache lookup found an unexpired entry for
\* its image and prompt, whatever value the entry holds, sends no request to the
\* analysis endpoint and goes on with the entry's value.
C5_CacheHitNoNetwork ==
  (/\ driver = "page" /\ run # Null
   /\ lastGet # Null /\ lastGet[1].found # Null
   /\ lastGet[1].at - lastGet[1].found[1].timestamp < maxAge)
    => /\ fetches = 0
       /\ analysisResponse = Some(lastGet[1].found[1].data)

\* C8: a timestamp enters the rate window only in a step of an attempt that
\* invoked the operation (on the page: sent the request), never in a step where
\* the rate-limit check refuses the attempt, and never during a run that was
\* served from the cache; and at any moment one call has made at most maxRetries
\* attempts, refused ones included, so has invoked the operation at most
\* maxRetries times.
C8_RecordOnlyDispatched ==
  /\ [](/\ opCalls + rejects <= maxRetries
        /\ fetches <= opCalls
        /\ records <= opCalls)
  /\ [][Len(requestTimestamps') > Len(requestTimestamps)
          => /\ inOperation
             /\ driver = "page" => fetches > 0
             /\ rejects' = rejects
             /\ cacheStatus # Some(UsingCached)]_vars
C8_Witness ==
  /\ driver = "retry"
  /\ pc = "returned"
  /\ rejects = 1
  /\ opCalls = 1
  /\ records = 1
  /\ Len(requestTimestamps) = 1

\* C11: a set() into a cache of maxEntries entries removes one entry that has
\* the smallest timestamp of all, then inserts: every other entry stays as it
\* was (but the one of the key being set, which takes the new value), and the
\* removed entry's key is gone unless it is the key being set.
C11_EvictsOldestOnly ==
  [][(Len(cache) = maxEntries /\ lastSet' # Null /\ lastSet' # lastSet)
       => LET key == CacheKey(generateImageHash(lastSet'[1].image), lastSet'[1].prompt)
          IN \E i \in DOMAIN cache :
               /\ \A j \in DOMAIN cache : cache[i].timestamp <= cache[j].timestamp
               /\ cache[i].key # key => KeyIndex(cache', cache[i].key) = 0
               /\ \A j \in DOMAIN cache \ {i} :
                    cache[j].key # key
                      => /\ KeyIndex(cache', cache[j].key) # 0
                         /\ cache'[KeyIndex(cache', cache[j].key)] = cache[j]
               /\ KeyIndex(cache', key) # 0
               /\ cache'[KeyIndex(cache', key)].data = lastSet'[1].data
               /\ \A j \in DOMAIN cache' :
                    cache'[j].key = key \/ KeyIndex(cache, cache'[j].key) # 0]_vars
C11_Witness ==
  /\ driver = "evict"
  /\ Len(cache) = maxEntries
  /\ lastSet # Null
  /\ KeyIndex(cache, CacheKey(generateImageHash("imgA"), NumberedPrompt(1))) = 1
  /\ cache[1].timestamp > 0
  /\ KeyIndex(cache, CacheKey(generateImageHash("imgA"), NumberedPrompt(2))) = 0
  /\ KeyIndex(cache, CacheKey(generateImageHash("imgA"), NumberedPrompt(maxEntries + 1))) # 0

\* the string a JSON string literal stands for
JsonStringValue(json) ==
  [i \in 1..(Len(json) - 2) |-> IF json[i + 1] = "\\\"" THEN "\"" ELSE json[i + 1]]
\* the response holds no block that parses
NoParseableBlock(text) == JsonMatch(text) = Null \/ ParseJson(JsonMatch(text)[1]) = Null

\* C12: when the Imagen request of a run settles without a failure and the
\* run's analysis response holds no parseable JSON block, the run ends there
\* with no error, no progress text and the fallback report: its
\* repair_description is the JSON of an object whose current_state reads back as
\* the raw response text, its cost and timeline are the fixed values.
C12_FallbackReport ==
  [][(/\ driver = "page" /\ pc = "synthesizing" /\ pc' = "done"
      /\ faults' = faults
      /\ NoParseableBlock(analysisResponse[1]))
       => /\ error' = Null
          /\ processingStep' = <<>>
          /\ reportData' # Null
          /\ JsonStringValue(reportData'[1].repair_description.current_state)
               = analysisResponse[1]
          /\ reportData'[1].cost_estimation = FallbackCost
          /\ reportData'[1].timeline = FallbackTimeline]_vars
C12_Witness ==
  /\ driver = "page"
  /\ pc = "done"
  /\ error = Null
  /\ analysisResponse = Some(<<"beam", "\"", "{", "6 m", "}">>)
  /\ reportData # Null
  /\ reportData[1].timeline = FallbackTimeline
  /\ reportData[1].repair_description.current_state
       = <<"\"", "beam", "\\\"", "{", "6 m", "}", "\"">>

\* C13 (as claimed): with no API key, a run that was triggered sends no request,
\* has looked nothing up, and the page never shows the loading state for it.
C13_NoKeyNoProgress ==
  (driver = "page" /\ ~apiKey /\ run # Null)
    => /\ fetches = 0
       /\ lastGet = Null
       /\ pc \notin {"describing", "synthesizing"}
       /\ ~isLoading

\* a description of blanks only (the empty one included)
Blank(d) == \A i \in DOMAIN d : d[i] = " "

Stage(p) ==
  CASE p = "idle" -> 0
    [] p = "converting" -> 1
    [] p \in {"lookup", "attempt", "fetching", "sleeping"} -> 2
    [] p \in {"describing", "synthesizing"} -> 3
    [] p = "done" -> 4

\* C15: a run starts with the conversion; while it is the same run, each step
\* stays in its stage (convert, analyze, visualize), moves to the next one, or
\* ends the run; the report is set only by the step that ends the
\* visualization; and while a visualization request is out, the analysis
\* response is there and, unless it came from the cache, the cache already
\* answers with it for the run's image and prompt.
C15_StepsInOrder ==
  /\ [][(run' # run /\ run' # Null) => pc' = "converting"]_vars
  /\ [][(driver = "page" /\ run # Null /\ run' = run)
          => \/ Stage(pc') = Stage(pc)
             \/ Stage(pc') = Stage(pc) + 1
             \/ pc' = "done"]_vars
  /\ [][(reportData' # reportData /\ reportData' # Null) => pc = "synthesizing"]_vars
  /\ []((driver = "page" /\ pc \in {"describing", "synthesizing"})
          => /\ analysisResponse # Null
             /\ cacheStatus # Some(UsingCached)
                  => GetValue(cache, run[1].image, FullPrompt(run[1].description), now)
                       = analysisResponse)
C15_Witness ==
  /\ driver = "page"
  /\ pc = "describing"
  /\ cacheStatus = Null
  /\ records = 1
  /\ sleeps # <<>>
  /\ Len(cache) = 1

\* C16: while a run is between its click and its end the loading flag is set,
\* so the button is disabled; and a run starts only when none is in flight.
C16_OneRunInFlight ==
  /\ []((driver = "page" /\ pc \notin {"idle", "done"}) => isLoading /\ run # Null)
  /\ [][(run' # run /\ run' # Null) => pc \in {"idle", "done"}]_vars
C16_Witness ==
  /\ driver = "page"
  /\ pc = "fetching"
  /\ isLoading
  /\ uploadedImage # Null
  /\ uploadedImage # Some(run[1].image)

\* C17 (as claimed): the step in which the cache lookup settles never ends the
\* run: whatever happens inside the cache, the run goes on, to the analysis
\* request or, with a cached value, to the visualization.
C17_LookupNeverEndsRun ==
  [][(driver = "page" /\ pc = "lookup") => pc' \in {"lookup", "attempt", "describing"}]_vars

InWindow(ts, t) == {ts[i] : i \in {j \in DOMAIN ts : t - ts[j] < cooldownPeriod}}
OldestInWindow(ts, t) == CHOOSE x \in InWindow(ts, t) : \A y \in InWindow(ts, t) : x <= y

\* C20: getNextAvailableTime() is 0 exactly when canMakeRequest() is true;
\* otherwise it is max(0, oldest timestamp in the window + cooldownPeriod - now);
\* it is always within 0..cooldownPeriod; and the rate-limit error of a refused
\* attempt carries that value.
C20_NextAvailableTime ==
  /\ [](driver = "retry" =>
         LET w == getNextAvailableTime(requestTimestamps, now)
             can == canMakeRequest(requestTimestamps, now)
         IN /\ (w = 0) <=> can
            /\ w \in 0..cooldownPeriod
            /\ ~can => w = Max(0, OldestInWindow(requestTimestamps, now)
                                    + cooldownPeriod - now))
  /\ [][(driver = "retry" /\ rejects' = rejects + 1)
          => lastError' = Some(RateLimitError(
               Max(0, OldestInWindow(requestTimestamps, now) + cooldownPeriod - now)))]_vars
C20_Witness ==
  /\ driver = "retry"
  /\ rejects > 0
  /\ pc = "sleeping"
  /\ ~canMakeRequest(requestTimestamps, now)
  /\ Cardinality(InWindow(requestTimestamps, now)) > 1
  /\ getNextAvailableTime(requestTimestamps, now) \in 1..(cooldownPeriod - 1)
  /\ lastError = Some(RateLimitError(getNextAvailableTime(requestTimestamps, now)))

\* C19: a run that passed validation eventually ends, with the report set
\* (Ready) or with the error set (Errored), provided every awaited call settles:
\* it does not stay in the conversion, the analysis, a backoff sleep or the
\* visualization for ever.
C19_RunEnds ==
  (driver = "page" /\ run # Null /\ pc \in {"converting", "lookup", "attempt", "fetching",
                                             "sleeping", "describing", "synthesizing"})
    ~> (pc = "done" /\ (reportData # Null \/ error # Null))
C19_Witness ==
  /\ driver = "page"
  /\ pc = "done"
  /\ run # Null
  /\ sleeps # <<>>
  /\ reportData # Null
  /\ error = Null

\* C21: every invocation of the operation follows a canMakeRequest() that said
\* yes at that moment; an attempt whose canMakeRequest() says no does not invoke
\* the operation and fails with the rate-limit error that carries
\* getNextAvailableTime(), in whole seconds; and refused attempts count as
\* attempts: invocations plus refusals never exceed maxRetries in one call.
C21_RefusedAttempt ==
  /\ [](driver = "retry" => opCalls + rejects <= maxRetries)
  /\ [][(driver = "retry" /\ opCalls' = opCalls + 1)
          => /\ canMakeRequest(requestTimestamps, now)
             /\ lastQuery' = Some([ok |-> TRUE, at |-> now])]_vars
  /\ [][(driver = "retry" /\ pc = "attempt" /\ attempt < maxRetries /\ now' = now
          /\ ~canMakeRequest(requestTimestamps, now))
          => /\ opCalls' = opCalls
             /\ inOperation' = FALSE
             /\ rejects' = rejects + 1
             /\ lastQuery' = Some([ok |-> FALSE, at |-> now])
             /\ lastError' =
                  Some(<<"Rate limit", "reached.", "Please wait",
                         ToString(CeilSeconds(getNextAvailableTime(requestTimestamps, now))),
                         "seconds.">>)]_vars
C21_Witness ==
  /\ driver = "retry"
  /\ pc = "threw"
  /\ rejects = maxRetries
  /\ opCalls = 0
  /\ callErr = Some(RateLimitError(getNextAvailableTime(requestTimestamps, now)))

\* the blocks of a text that JSON.parse accepts, and their cost totals
ValidBlocks(text) ==
  {SubSeq(text, i, j) : i \in DOMAIN text, j \in DOMAIN text} \ {b \in
    {SubSeq(text, i, j) : i \in DOMAIN text, j \in DOMAIN text} : ParseJson(b) = Null}

\* C22 (as claimed): when the analysis response of a run holds a valid JSON
\* block with a cost total, whatever text surrounds the block, the report the
\* run ends with carries exactly that total.
C22_CostFromBlock ==
  [][(/\ driver = "page" /\ pc = "synthesizing" /\ reportData' # Null
      /\ reportData' # reportData)
       => \A b \in ValidBlocks(analysisResponse[1]) :
            Field(ParseJson(b)[1], "cost_estimation") # Undefined
              => reportData'[1].cost_estimation.total
                   = ParseJson(b)[1].cost_estimation.total]_vars

\* the step that starts a later session of the cache driver
IsReload == driver = "cache" /\ calls' = calls + 1 /\ lastSet' = Null /\ lastGet' = Null

\* C23 (as claimed): whatever get() answers at the end of one session, for any
\* image and prompt, it answers at the start of the next session.
C23_SurvivesReload ==
  [][IsReload => \A a \in Images \X Prompts :
                   GetValue(cache, a[1], a[2], now) # Null
                     => GetValue(cache', a[1], a[2], now) = GetValue(cache, a[1], a[2], now)]_vars

\* C23 (amended): whatever get() answers at the end of a session whose writes
\* to the durable store succeeded, it answers at the start of the next session,
\* for images with the same content and the same prompt.
C23_SurvivesReloadWhenSaved ==
  [][(IsReload /\ storageWritable)
       => \A a \in Images \X Prompts :
            GetValue(cache, a[1], a[2], now) # Null
              => GetValue(cache', a[1], a[2], now) = GetValue(cache, a[1], a[2], now)]_vars
C23_Witness ==
  /\ driver = "cache"
  /\ calls = MaxCacheOps
  /\ storage.kind = "json"
  /\ ~storageWritable
  /\ cache = storage.entries
  /\ lastGet # Null
  /\ lastGet[1].image = "imgA2"
  /\ lastGet[1].value = Some(<<"x">>)

\* C24 (as claimed): once a run has ended, with the report or with an error,
\* the loading flag is false and, an image being uploaded, the trigger is
\* enabled.
C24_LoadingFlagReset ==
  (driver = "page" /\ pc = "done" /\ run # Null /\ (reportData # Null \/ error # Null))
    => (~isLoading /\ (uploadedImage # Null => canGenerateReport))

\* the invocations of the operation so far, while the clock is still within
\* the first cooldownPeriod: those recorded, those that failed, the one in flight
DispatchedSoFar == Len(requestTimestamps) + faults + (IF inOperation THEN 1 ELSE 0)

\* C25 (as claimed): within the first cooldownPeriod of a session no more than
\* maxRequestsPerMinute requests are dispatched, failed ones included.
C25_DispatchBounded ==
  (driver = "retry" /\ now < cooldownPeriod) => DispatchedSoFar <= maxRequestsPerMinute

\* backoffFactor to the k
RECURSIVE FactorPower(_)
FactorPower(k) == IF k = 0 THEN 1 ELSE backoffFactor * FactorPower(k - 1)

\* C26: in one retryWithBackoff call the k-th sleep (k from 0) lasts
\* min(initialDelay * backoffFactor^k, maxDelay), so the sleeps never decrease
\* and never exceed maxDelay; there are at most maxRetries - 1 of them, and a
\* call whose every attempt failed retryably ends after exactly maxRetries - 1
\* sleeps, which are 2000 ms then 4000 ms.
C26_BackoffSchedule ==
  driver = "retry" =>
    /\ Len(sleeps) <= maxRetries - 1
    /\ \A k \in DOMAIN sleeps :
         /\ sleeps[k] = Min(initialDelay * FactorPower(k - 1), maxDelay)
         /\ sleeps[k] <= maxDelay
         /\ k > 1 => sleeps[k - 1] <= sleeps[k]
    /\ (/\ pc = "threw"
        /\ opCalls + rejects = maxRetries
        /\ \A i \in DOMAIN opErrors : Retryable(opErrors[i]))
         => sleeps = <<2000, 4000>>
C26_Witness ==
  /\ driver = "retry"
  /\ pc = "threw"
  /\ opCalls = maxRetries
  /\ Len(opErrors) = maxRetries
  /\ \A i \in DOMAIN opErrors : Retryable(opErrors[i])
  /\ sleeps = <<2000, 4000>>

\* C27: the rate window grows only in the step in which the operation
\* succeeds, by the one timestamp of that moment; the call then holds the
\* operation's result and no error, has recorded once, and nothing follows but
\* the return to the caller: no attempt, no sleep, no second timestamp.
C27_SuccessEndsCall ==
  /\ [](driver = "retry" =>
         /\ records <= 1
         /\ pc = "returned" => (records = 1 /\ callResult # Null /\ callErr = Null
                                /\ ~inOperation))
  /\ [][(driver = "retry" /\ Len(requestTimestamps') > Len(requestTimestamps))
          => /\ pc = "operation" /\ pc' = "returned"
             /\ requestTimestamps' = Append(requestTimestamps, now)
             /\ callResult' \in {Some(v) : v \in OpValues}
             /\ sleeps' = sleeps
             /\ opCalls' = opCalls]_vars
  /\ [][(driver = "retry" /\ pc = "returned")
          => /\ pc' \in {"returned", "idle"}
             /\ requestTimestamps' = requestTimestamps
             /\ pc' = "returned" => (opCalls' = opCalls /\ sleeps' = sleeps
                                     /\ callResult' = callResult)]_vars
C27_Witness ==
  /\ driver = "retry"
  /\ pc = "returned"
  /\ opCalls = 2
  /\ sleeps = <<initialDelay>>
  /\ records = 1
  /\ callResult = Some(<<"r1">>)
  /\ requestTimestamps # <<>>
  /\ requestTimestamps[Len(requestTimestamps)] = now

\* C28 (as claimed): a report on display belongs to the image on display: the
\* run that produced it was started on the image that is uploaded now.
C28_ReportOfUploadedImage ==
  (driver = "page" /\ reportData # Null)
    => (run # Null /\ uploadedImage = Some(run[1].image))

\* the cache key of the run in progress
RunKey == CacheKey(generateImageHash(run[1].image), FullPrompt(run[1].description))
\* a step of the page within one session other than the one in which the
\* analysis endpoint answers with a candidate
NotTheAnswer == driver = "page" /\ loads' = loads /\ ~(pc = "fetching" /\ analysisResponse' # Null)

\* C29 (as claimed): every step of a run other than the successful answer of
\* the analysis endpoint leaves the cache and the durable store as they were.
C29_OnlySuccessTouchesCache ==
  [][NotTheAnswer => (cache' = cache /\ storage' = storage)]_vars

\* C29 (amended): every step of a run other than the successful answer of the
\* analysis endpoint leaves the durable store as it was and adds nothing to the
\* cache; the one change it can make to the cache is the lookup's removal of
\* the run's own entry when that entry has expired.  The successful answer
\* stores the response under the run's key.
C29_OnlySuccessAddsEntry ==
  /\ [][NotTheAnswer
          => /\ storage' = storage
             /\ \/ cache' = cache
                \/ /\ pc = "lookup"
                   /\ KeyIndex(cache, RunKey) # 0
                   /\ ~EntryFresh(cache[KeyIndex(cache, RunKey)], now)
                   /\ cache' = MapDelete(cache, RunKey)]_vars
  /\ [][(driver = "page" /\ pc = "fetching" /\ analysisResponse' # Null)
          => /\ KeyIndex(cache', RunKey) # 0
             /\ cache'[KeyIndex(cache', RunKey)].data = analysisResponse'[1]
             /\ cache'[KeyIndex(cache', RunKey)].timestamp = now]_vars
C29_Witness ==
  /\ driver = "page"
  /\ pc = "done"
  /\ error # Null
  /\ fetches > 0
  /\ analysisResponse = Null
  /\ lastGet # Null
  /\ lastGet[1].found # Null
  /\ lastGet[1].value = Null
  /\ cache = <<>>
  /\ storage.kind = "json"
  /\ Len(storage.entries) = 1

\* C30: the cache never holds more than maxEntries entries, whatever gets and
\* sets are made, of new keys or of keys already present, in whatever order the
\* sets come out of their hash computation; and a set() never makes the cache
\* grow by more than one entry.
C30_NeverOverCapacity ==
  /\ [](Len(cache) <= maxEntries)
  /\ [][Len(cache') <= Len(cache) + 1]_vars
C30_Witness ==
  /\ driver = "evict"
  /\ calls = MaxEvictOps
  /\ Len(cache) = maxEntries
  /\ lastSet # Null
  /\ lastGet = Null
  /\ KeyIndex(cache, CacheKey(generateImageHash("imgA"), NumberedPrompt(maxEntries + 1))) # 0

\* the entries of a Map, as a set
EntriesOf(c) == {c[i] : i \in DOMAIN c}

\* C31 (as claimed): in a session whose writes to the store succeed, the store
\* holds exactly the entries of the cache after every get and set.
C31_StoreMirrorsCache ==
  (driver = "cache" /\ storageWritable)
    => EntriesOf(loadFromLocalStorage(storage)) = EntriesOf(cache)

\* C32: a get() that hits leaves the whole cache as it was, the timestamp of
\* the entry read included; and a set() of another key into a full cache, made
\* after a get() that hit the entry with the oldest timestamp (the first
\* inserted of them), evicts that entry all the same.
C32_ReadDoesNotRefresh ==
  /\ [][(driver = "evict" /\ calls' = calls + 1 /\ lastGet' # Null
          /\ lastGet'[1].value # Null)
          => /\ cache' = cache
             /\ storage' = storage
             /\ lastGet'[1].found = Some(cache'[KeyIndex(cache', lastGet'[1].found[1].key)])]_vars
  /\ [][(/\ driver = "evict" /\ lastGet # Null /\ lastGet[1].value # Null
         /\ Len(cache) = maxEntries
         /\ lastSet' # Null /\ calls' = calls + 1
         /\ LET k == KeyIndex(cache, lastGet[1].found[1].key)
            IN /\ k # 0
               /\ \A j \in DOMAIN cache :
                    \/ cache[k].timestamp < cache[j].timestamp
                    \/ cache[k].timestamp = cache[j].timestamp /\ k <= j
         /\ CacheKey(generateImageHash(lastSet'[1].image), lastSet'[1].prompt)
              # lastGet[1].found[1].key)
          => KeyIndex(cache', lastGet[1].found[1].key) = 0]_vars
C32_Witness ==
  /\ driver = "evict"
  /\ Len(cache) = maxEntries
  /\ ticks = 1
  /\ lastGet # Null
  /\ lastGet[1].at = now
  /\ lastGet[1].value = Some(<<"x">>)
  /\ lastGet[1].found = Some(cache[1])
  /\ cache[1].timestamp = 0
  /\ \A j \in DOMAIN cache : cache[1].timestamp <= cache[j].timestamp

\* C33 (as claimed): every report that is set has a repair description, a cost
\* estimation and a timeline, whatever the analysis response was.
C33_ReportFieldsDefined ==
  (driver = "page" /\ reportData # Null)
    => /\ reportData[1].repair_description # Undefined
       /\ reportData[1].cost_estimation # Undefined
       /\ reportData[1].timeline # Undefined

====
